---- MODULE Spec2Model ----
(***************************************************************************)
(* Model of the network orchestrator script Vivek_Anandh_U1241037.py.      *)
(*                                                                         *)
(* Every function of the script is a fixed sequence of steps (print, run a *)
(* command, sleep); it is modelled as the sequence of its steps, and the   *)
(* interpreter executes one step per action.  The environment is the       *)
(* docker project: whether the containers are up, and the OSPF cost last   *)
(* applied to each router interface.                                       *)
(***************************************************************************)
EXTENDS Integers, Sequences, FiniteSets

\* ------------------------------------------------------------------ bounds
MaxArgs == 1        \* command-line flags of a run in which commands may fail
MaxArgsOk == 2      \* command-line flags of a run in which every command succeeds
MaxLines == 2       \* output lines read from the background ping
MaxFaults == 1      \* commands of one run that fail or print nothing

\* --------------------------------------------------------- static tables
\* An address "a.b.c.d/len" is the tuple <<a, b, c, d, len>>.
\* Faulty variant of ROUTERS: r4's north and south interfaces swapped.
ROUTERS_r4_swapped ==
  [ r1 |-> [ interfaces |-> [ eth0 |-> [network |-> "net14", ip |-> <<10, 0, 14, 4, 24>>],
                              eth1 |-> [network |-> "net10", ip |-> <<10, 0, 10, 3, 24>>],
                              eth2 |-> [network |-> "net13", ip |-> <<10, 0, 13, 4, 24>>] ],
             router_id |-> <<192, 168, 1, 1>>,
             networks |-> << <<10, 0, 14, 0, 24>>, <<10, 0, 10, 0, 24>>, <<10, 0, 13, 0, 24>> >>,
             north_interface |-> "eth1",
             south_interface |-> "eth2" ],
    r2 |-> [ interfaces |-> [ eth0 |-> [network |-> "net10", ip |-> <<10, 0, 10, 4, 24>>],
                              eth1 |-> [network |-> "net11", ip |-> <<10, 0, 11, 3, 24>>] ],
             router_id |-> <<192, 168, 1, 2>>,
             networks |-> << <<10, 0, 10, 0, 24>>, <<10, 0, 11, 0, 24>> >>,
             north_interface |-> "eth0",
             south_interface |-> "eth1" ],
    r3 |-> [ interfaces |-> [ eth0 |-> [network |-> "net11", ip |-> <<10, 0, 11, 4, 24>>],
                              eth1 |-> [network |-> "net12", ip |-> <<10, 0, 12, 3, 24>>],
                              eth2 |-> [network |-> "net15", ip |-> <<10, 0, 15, 4, 24>>] ],
             router_id |-> <<192, 168, 1, 3>>,
             networks |-> << <<10, 0, 11, 0, 24>>, <<10, 0, 12, 0, 24>>, <<10, 0, 15, 0, 24>> >>,
             north_interface |-> "eth0",
             south_interface |-> "eth1" ],
    r4 |-> [ interfaces |-> [ eth0 |-> [network |-> "net13", ip |-> <<10, 0, 13, 3, 24>>],
                              eth1 |-> [network |-> "net12", ip |-> <<10, 0, 12, 4, 24>>] ],
             router_id |-> <<192, 168, 1, 4>>,
             networks |-> << <<10, 0, 13, 0, 24>>, <<10, 0, 12, 0, 24>> >>,
             north_interface |-> "eth1",
             south_interface |-> "eth0" ] ]

ROUTERS ==
  [ r1 |-> [ interfaces |-> [ eth0 |-> [network |-> "net14", ip |-> <<10, 0, 14, 4, 24>>],
                              eth1 |-> [network |-> "net10", ip |-> <<10, 0, 10, 3, 24>>],
                              eth2 |-> [network |-> "net13", ip |-> <<10, 0, 13, 4, 24>>] ],
             router_id |-> <<192, 168, 1, 1>>,
             networks |-> << <<10, 0, 14, 0, 24>>, <<10, 0, 10, 0, 24>>, <<10, 0, 13, 0, 24>> >>,
             north_interface |-> "eth1",
             south_interface |-> "eth2" ],
    r2 |-> [ interfaces |-> [ eth0 |-> [network |-> "net10", ip |-> <<10, 0, 10, 4, 24>>],
                              eth1 |-> [network |-> "net11", ip |-> <<10, 0, 11, 3, 24>>] ],
             router_id |-> <<192, 168, 1, 2>>,
             networks |-> << <<10, 0, 10, 0, 24>>, <<10, 0, 11, 0, 24>> >>,
             north_interface |-> "eth0",
             south_interface |-> "eth1" ],
    r3 |-> [ interfaces |-> [ eth0 |-> [network |-> "net11", ip |-> <<10, 0, 11, 4, 24>>],
                              eth1 |-> [network |-> "net12", ip |-> <<10, 0, 12, 3, 24>>],
                              eth2 |-> [network |-> "net15", ip |-> <<10, 0, 15, 4, 24>>] ],
             router_id |-> <<192, 168, 1, 3>>,
             networks |-> << <<10, 0, 11, 0, 24>>, <<10, 0, 12, 0, 24>>, <<10, 0, 15, 0, 24>> >>,
             north_interface |-> "eth0",
             south_interface |-> "eth1" ],
    r4 |-> [ interfaces |-> [ eth0 |-> [network |-> "net13", ip |-> <<10, 0, 13, 3, 24>>],
                              eth1 |-> [network |-> "net12", ip |-> <<10, 0, 12, 4, 24>>] ],
             router_id |-> <<192, 168, 1, 4>>,
             networks |-> << <<10, 0, 13, 0, 24>>, <<10, 0, 12, 0, 24>> >>,
             north_interface |-> "eth0",
             south_interface |-> "eth1" ] ]

HOSTS ==
  [ hosta |-> [ ip |-> <<10, 0, 14, 3, 24>>, interface |-> "eth0",
                gateway |-> <<10, 0, 14, 4>>, remote_subnet |-> <<10, 0, 15, 0, 24>> ],
    hostb |-> [ ip |-> <<10, 0, 15, 3, 24>>, interface |-> "eth0",
                gateway |-> <<10, 0, 15, 4>>, remote_subnet |-> <<10, 0, 14, 0, 24>> ] ]

\* Iteration order of ROUTERS.keys() / ROUTERS.items() and HOSTS.items().
RouterKeys == <<"r1", "r2", "r3", "r4">>
HostKeys == <<"hosta", "hostb">>

DEFAULT_WEIGHT == 10
HIGH_WEIGHT == 100
\* Cost of an interface no "ip ospf cost" command has been applied to.
UnsetCost == 0

\* ------------------------------------------------------------ the state
VARIABLES
  routers, hosts,   \* the module-level dictionaries ROUTERS and HOSTS
  argv,             \* sys.argv[1:], until parse_args has read it
  argc,             \* len(sys.argv)
  args,             \* the flags parse_args() found set
  mainPc,           \* 0: before parse_args; k in 1..12: at the k-th "if" of main; 13: the help check
  call,             \* the function main is executing, with its arguments
  pc,               \* index of the next statement of that function
  output,           \* the last value a caller kept from run_command
  trace,            \* commands issued, sleeps and prints, in order
  opsRun,           \* the flag blocks of main entered so far
  opStart,          \* Len(trace) when the current function was entered
  cost,             \* environment: cost last applied to each interface
  cost0,            \* cost when the current function was entered
  containersUp,     \* environment: docker compose project is up
  errorShown,       \* run_command printed "Error executing command"
  faults,           \* commands so far that did not succeed with some output
  status, exitcode, \* "running" / "exited" and the script's exit status
  child,            \* the background ping: "none", "running", "exited", "terminated"
  handler,          \* SIGINT disposition: "default" or "custom"
  lines,            \* lines read from the ping's stdout
  interrupted       \* "no", or the state of the child when SIGINT arrived

vars == << routers, hosts, argv, argc, args, mainPc, call, pc, output, trace, opsRun,
           opStart, cost, cost0, containersUp, errorShown, faults, status,
           exitcode, child, handler, lines, interrupted >>


\* ------------------------------------------------- commands and steps
None == "None"

\* An argument list handed to subprocess: where it runs ("host" for the
\* local machine, otherwise the docker exec target), the program, and the
\* interface and cost of an "ip ospf cost" command.
Cmd(target, prog) == [target |-> target, prog |-> prog, iface |-> "-", weight |-> 0]
CostCmd(router, interface, weight) ==
  [target |-> router, prog |-> "vtysh ip ospf cost", iface |-> interface, weight |-> weight]
NoCmd == Cmd("-", "-")

Step(k, cmd, container, keep, msg, alt, arg, secs) ==
  [k |-> k, cmd |-> cmd, container |-> container, keep |-> keep,
   msg |-> msg, alt |-> alt, arg |-> arg, secs |-> secs]
\* run_command(cmd, container), result discarded
Run(cmd, container) == Step("run", cmd, container, FALSE, "", "", "", 0)
\* output = run_command(cmd, container)
RunKeep(cmd, container) == Step("run", cmd, container, TRUE, "", "", "", 0)
Sleep(secs) == Step("sleep", NoCmd, None, FALSE, "", "", "", secs)
Echo(msg, arg) == Step("print", NoCmd, None, FALSE, msg, "", arg, 0)
\* prints msg when output is truthy, alt otherwise
EchoIf(msg, alt, arg) == Step("print_if", NoCmd, None, FALSE, msg, alt, arg, 0)
Popen(cmd) == Step("popen", cmd, None, FALSE, "", "", "", 0)
SignalStep == Step("signal", NoCmd, None, FALSE, "", "", "", 0)
ReadLoop == Step("read", NoCmd, None, FALSE, "", "", "", 0)

RECURSIVE Flatten(_)
Flatten(ss) == IF ss = << >> THEN << >> ELSE Head(ss) \o Flatten(Tail(ss))

\* ------------------------------------------------ the script's functions
start_containers ==
  << Echo("Starting containers...", ""),
     Run(Cmd("host", "docker compose up -d"), None),
     Sleep(5),
     Echo("Containers started", "") >>

stop_containers ==
  << Echo("Stopping containers...", ""),
     Run(Cmd("host", "docker compose down"), None),
     Echo("Containers stopped", "") >>

install_frr(container) ==
  << Echo("Installing FRR on", container),
     Run(Cmd("host", "apt-get update"), container),
     Run(Cmd("host", "apt -y install curl gnupg lsb-release"), container),
     Run(Cmd("host", "bash -c curl keys.gpg | tee frrouting.gpg"), container),
     Run(Cmd("host", "bash -c echo deb | tee -a frr.list"), container),
     Run(Cmd("host", "apt update"), container),
     Run(Cmd("host", "apt -y install frr frr-pythontools"), container),
     Run(Cmd("host", "sed -i s/ospfd=no/ospfd=yes/g /etc/frr/daemons"), container),
     Run(Cmd("host", "service frr restart"), container),
     RunKeep(Cmd("host", "bash -c pgrep ospfd"), container),
     EchoIf("OSPF daemon running on", "Warning: OSPF daemon may not be running on", container) >>

configure_basic_ospf(router, config) ==
  << Run(Cmd("host", "vtysh router ospf"), router) >>

set_ospf_weight(router, interface, weight) ==
  << Run(CostCmd(router, interface, weight), None) >>

\* Faulty variant of configure_ospf: r2's interface to R3 is given the weight
\* of the R1-R4 link.
configure_ospf_wrong_link(path) ==
  LET r1_r2_weight == IF path = "north" THEN DEFAULT_WEIGHT ELSE HIGH_WEIGHT
      r2_r3_weight == IF path = "north" THEN DEFAULT_WEIGHT ELSE HIGH_WEIGHT
      r1_r4_weight == IF path = "north" THEN HIGH_WEIGHT ELSE DEFAULT_WEIGHT
      r3_r4_weight == IF path = "north" THEN HIGH_WEIGHT ELSE DEFAULT_WEIGHT
      weights(router) ==
        IF router = "r1" THEN
          set_ospf_weight(router, ROUTERS[router].north_interface, r1_r2_weight)
          \o set_ospf_weight(router, ROUTERS[router].south_interface, r1_r4_weight)
        ELSE IF router = "r2" THEN
          set_ospf_weight(router, ROUTERS[router].north_interface, r1_r2_weight)
          \o set_ospf_weight(router, ROUTERS[router].south_interface, r1_r4_weight)
        ELSE IF router = "r3" THEN
          set_ospf_weight(router, ROUTERS[router].north_interface, r2_r3_weight)
          \o set_ospf_weight(router, ROUTERS[router].south_interface, r3_r4_weight)
        ELSE IF router = "r4" THEN
          set_ospf_weight(router, ROUTERS[router].north_interface, r1_r4_weight)
          \o set_ospf_weight(router, ROUTERS[router].south_interface, r3_r4_weight)
        ELSE << >>
  IN << Echo("Configuring OSPF on all routers...", "") >>
     \o Flatten([i \in 1..Len(RouterKeys) |->
                   configure_basic_ospf(RouterKeys[i], ROUTERS[RouterKeys[i]])
                   \o weights(RouterKeys[i])])
     \o << Echo("Waiting for OSPF convergence...", ""),
           Sleep(5),
           Echo("OSPF configuration complete", "") >>

configure_ospf(path) ==
  LET r1_r2_weight == IF path = "north" THEN DEFAULT_WEIGHT ELSE HIGH_WEIGHT
      r2_r3_weight == IF path = "north" THEN DEFAULT_WEIGHT ELSE HIGH_WEIGHT
      r1_r4_weight == IF path = "north" THEN HIGH_WEIGHT ELSE DEFAULT_WEIGHT
      r3_r4_weight == IF path = "north" THEN HIGH_WEIGHT ELSE DEFAULT_WEIGHT
      weights(router) ==
        IF router = "r1" THEN
          set_ospf_weight(router, ROUTERS[router].north_interface, r1_r2_weight)
          \o set_ospf_weight(router, ROUTERS[router].south_interface, r1_r4_weight)
        ELSE IF router = "r2" THEN
          set_ospf_weight(router, ROUTERS[router].north_interface, r1_r2_weight)
          \o set_ospf_weight(router, ROUTERS[router].south_interface, r2_r3_weight)
        ELSE IF router = "r3" THEN
          set_ospf_weight(router, ROUTERS[router].north_interface, r2_r3_weight)
          \o set_ospf_weight(router, ROUTERS[router].south_interface, r3_r4_weight)
        ELSE IF router = "r4" THEN
          set_ospf_weight(router, ROUTERS[router].north_interface, r1_r4_weight)
          \o set_ospf_weight(router, ROUTERS[router].south_interface, r3_r4_weight)
        ELSE << >>
  IN << Echo("Configuring OSPF on all routers...", "") >>
     \o Flatten([i \in 1..Len(RouterKeys) |->
                   configure_basic_ospf(RouterKeys[i], ROUTERS[RouterKeys[i]])
                   \o weights(RouterKeys[i])])
     \o << Echo("Waiting for OSPF convergence...", ""),
           Sleep(5),
           Echo("OSPF configuration complete", "") >>

setup_host_routes ==
  << Echo("Setting up routes on host machines...", "") >>
  \o [i \in 1..Len(HostKeys) |-> Run(Cmd("host", "ip route add"), HostKeys[i])]
  \o << Echo("Host routes configured", "") >>

\* Faulty variants of switch_traffic_path, used to show that the claims
\* about it depend on the order and completeness of its commands.
SwitchIfaces(path) ==
  IF path = "north"
    THEN << <<"r1", ROUTERS["r1"].north_interface>>, <<"r2", ROUTERS["r2"].north_interface>>,
            <<"r2", ROUTERS["r2"].south_interface>>, <<"r3", ROUTERS["r3"].north_interface>> >>
    ELSE << <<"r1", ROUTERS["r1"].south_interface>>, <<"r4", ROUTERS["r4"].north_interface>>,
            <<"r3", ROUTERS["r3"].south_interface>>, <<"r4", ROUTERS["r4"].south_interface>> >>

SwitchSet(path, idx, weight) ==
  [n \in 1..Len(idx) |->
     Run(CostCmd(SwitchIfaces(path)[idx[n]][1], SwitchIfaces(path)[idx[n]][2], weight), None)]

SwitchVariant(from_path, to_path, first, second) ==
  << Echo("Switching traffic from", from_path) >>
  \o (IF from_path \in {"north", "south"} /\ to_path \in {"north", "south"}
         /\ from_path # to_path
        THEN << Echo("Step 1", "") >> \o first
             \o << Echo("Waiting for OSPF to converge...", ""), Sleep(5), Echo("Step 2", "") >>
             \o second
        ELSE << >>)
  \o << Echo("Waiting for full OSPF convergence...", ""),
        Sleep(5),
        Echo("Traffic switched to", to_path) >>

\* raises the old path before lowering the new one
switch_break_first(from_path, to_path) ==
  SwitchVariant(from_path, to_path,
                SwitchSet(from_path, <<1, 2, 3, 4>>, HIGH_WEIGHT),
                SwitchSet(to_path, <<1, 2, 3, 4>>, DEFAULT_WEIGHT))

\* starts raising the old path before the fourth lowering and the sleep
switch_early_raise(from_path, to_path) ==
  SwitchVariant(from_path, to_path,
                SwitchSet(to_path, <<1, 2, 3>>, DEFAULT_WEIGHT)
                \o SwitchSet(from_path, <<1>>, HIGH_WEIGHT)
                \o SwitchSet(to_path, <<4>>, DEFAULT_WEIGHT),
                SwitchSet(from_path, <<2, 3, 4>>, HIGH_WEIGHT))

\* forgets the last interface of the old path
switch_skips_last(from_path, to_path) ==
  SwitchVariant(from_path, to_path,
                SwitchSet(to_path, <<1, 2, 3, 4>>, DEFAULT_WEIGHT),
                SwitchSet(from_path, <<1, 2, 3>>, HIGH_WEIGHT))

switch_traffic_path(from_path, to_path) ==
  << Echo("Switching traffic from", from_path) >>
  \o (IF from_path = "north" /\ to_path = "south" THEN
        << Echo("Step 1: Lowering cost of southern path", "") >>
        \o set_ospf_weight("r1", ROUTERS["r1"].south_interface, DEFAULT_WEIGHT)
        \o set_ospf_weight("r4", ROUTERS["r4"].north_interface, DEFAULT_WEIGHT)
        \o set_ospf_weight("r3", ROUTERS["r3"].south_interface, DEFAULT_WEIGHT)
        \o set_ospf_weight("r4", ROUTERS["r4"].south_interface, DEFAULT_WEIGHT)
        \o << Echo("Waiting for OSPF to converge...", ""),
              Sleep(5),
              Echo("Step 2: Increasing cost of northern path", "") >>
        \o set_ospf_weight("r1", ROUTERS["r1"].north_interface, HIGH_WEIGHT)
        \o set_ospf_weight("r2", ROUTERS["r2"].north_interface, HIGH_WEIGHT)
        \o set_ospf_weight("r2", ROUTERS["r2"].south_interface, HIGH_WEIGHT)
        \o set_ospf_weight("r3", ROUTERS["r3"].north_interface, HIGH_WEIGHT)
      ELSE IF from_path = "south" /\ to_path = "north" THEN
        << Echo("Step 1: Lowering cost of northern path", "") >>
        \o set_ospf_weight("r1", ROUTERS["r1"].north_interface, DEFAULT_WEIGHT)
        \o set_ospf_weight("r2", ROUTERS["r2"].north_interface, DEFAULT_WEIGHT)
        \o set_ospf_weight("r2", ROUTERS["r2"].south_interface, DEFAULT_WEIGHT)
        \o set_ospf_weight("r3", ROUTERS["r3"].north_interface, DEFAULT_WEIGHT)
        \o << Echo("Waiting for OSPF to converge...", ""),
              Sleep(5),
              Echo("Step 2: Increasing cost of southern path", "") >>
        \o set_ospf_weight("r1", ROUTERS["r1"].south_interface, HIGH_WEIGHT)
        \o set_ospf_weight("r4", ROUTERS["r4"].north_interface, HIGH_WEIGHT)
        \o set_ospf_weight("r3", ROUTERS["r3"].south_interface, HIGH_WEIGHT)
        \o set_ospf_weight("r4", ROUTERS["r4"].south_interface, HIGH_WEIGHT)
      ELSE << >>)
  \o << Echo("Waiting for full OSPF convergence...", ""),
        Sleep(5),
        Echo("Traffic switched to", to_path) >>

show_routing_tables ==
  Flatten([i \in 1..Len(RouterKeys) |->
    << Echo("=== Routing Table ===", RouterKeys[i]),
       RunKeep(Cmd("host", "vtysh show ip route ospf"), RouterKeys[i]),
       EchoIf("<output>", "No OSPF routes found", "") >>])

show_ospf_neighbors ==
  Flatten([i \in 1..Len(RouterKeys) |->
    << Echo("=== OSPF Neighbors ===", RouterKeys[i]),
       RunKeep(Cmd("host", "vtysh show ip ospf neighbor"), RouterKeys[i]),
       EchoIf("<output>", "No OSPF neighbors found", "") >>])

trace_route ==
  << Echo("=== Traceroute from HostA to HostB ===", ""),
     RunKeep(Cmd("host", "traceroute -n 10.0.15.3"), "hosta"),
     EchoIf("<output>", "Traceroute failed", "") >>

ping_test ==
  << Echo("=== Ping test from HostA to HostB ===", "4"),
     RunKeep(Cmd("host", "ping -c 4 10.0.15.3"), "hosta"),
     EchoIf("<output>", "Ping failed", "") >>

continuous_ping ==
  << Echo("Starting continuous ping from HostA to HostB...", ""),
     Echo("Press Ctrl+C to stop", ""),
     Popen(Cmd("hosta", "ping 10.0.15.3")),
     SignalStep,
     ReadLoop >>

\* Faulty variant of setup: OSPF is configured before FRR is installed.
setup_configure_first ==
  start_containers
  \o configure_ospf("north")
  \o Flatten([i \in 1..Len(RouterKeys) |-> install_frr(RouterKeys[i])])
  \o setup_host_routes
  \o << Echo("Network setup complete", "") >>

\* The body of main's "if args.setup:" block.
setup ==
  start_containers
  \o Flatten([i \in 1..Len(RouterKeys) |-> install_frr(RouterKeys[i])])
  \o configure_ospf("north")
  \o setup_host_routes
  \o << Echo("Network setup complete", "") >>


\* --------------------------------------------------------------- main
\* The command-line flags and the attribute argparse stores each one in.
Flags == { "--start", "--stop", "--setup", "--use-north", "--use-south",
           "--switch-to-north", "--switch-to-south", "--show-routes",
           "--show-neighbors", "--traceroute", "--ping", "--continuous-ping" }

Dest(flag) ==
  CASE flag = "--start" -> "start"
    [] flag = "--stop" -> "stop"
    [] flag = "--setup" -> "setup"
    [] flag = "--use-north" -> "use_north"
    [] flag = "--use-south" -> "use_south"
    [] flag = "--switch-to-north" -> "switch_to_north"
    [] flag = "--switch-to-south" -> "switch_to_south"
    [] flag = "--show-routes" -> "show_routes"
    [] flag = "--show-neighbors" -> "show_neighbors"
    [] flag = "--traceroute" -> "traceroute"
    [] flag = "--ping" -> "ping"
    [] flag = "--continuous-ping" -> "continuous_ping"

\* parser.parse_args(): the attributes set to True
parse_args(av) == { Dest(av[i]) : i \in 1..Len(av) }

\* Faulty variant of Order: the south blocks tested before the north ones.
Order_south_first == << "start", "stop", "setup", "use_south", "use_north",
                        "switch_to_south", "switch_to_north", "show_routes",
                        "show_neighbors", "traceroute", "ping", "continuous_ping" >>

\* The "if args.<dest>:" statements of main, top to bottom.
Order == << "start", "stop", "setup", "use_north", "use_south",
            "switch_to_north", "switch_to_south", "show_routes",
            "show_neighbors", "traceroute", "ping", "continuous_ping" >>

Call(fn, a, b) == [fn |-> fn, a |-> a, b |-> b]
NoCall == Call("none", "", "")

\* What the "if" of each attribute calls.
CallOf(dest) ==
  CASE dest = "start" -> Call("start_containers", "", "")
    [] dest = "stop" -> Call("stop_containers", "", "")
    [] dest = "setup" -> Call("setup", "", "")
    [] dest = "use_north" -> Call("configure_ospf", "north", "")
    [] dest = "use_south" -> Call("configure_ospf", "south", "")
    [] dest = "switch_to_north" -> Call("switch_traffic_path", "south", "north")
    [] dest = "switch_to_south" -> Call("switch_traffic_path", "north", "south")
    [] dest = "show_routes" -> Call("show_routing_tables", "", "")
    [] dest = "show_neighbors" -> Call("show_ospf_neighbors", "", "")
    [] dest = "traceroute" -> Call("trace_route", "", "")
    [] dest = "ping" -> Call("ping_test", "", "")
    [] dest = "continuous_ping" -> Call("continuous_ping", "", "")

BodyOf(c) ==
  CASE c.fn = "start_containers" -> start_containers
    [] c.fn = "stop_containers" -> stop_containers
    [] c.fn = "setup" -> setup
    [] c.fn = "configure_ospf" -> configure_ospf(c.a)
    [] c.fn = "switch_traffic_path" -> switch_traffic_path(c.a, c.b)
    [] c.fn = "show_routing_tables" -> show_routing_tables
    [] c.fn = "show_ospf_neighbors" -> show_ospf_neighbors
    [] c.fn = "trace_route" -> trace_route
    [] c.fn = "ping_test" -> ping_test
    [] c.fn = "continuous_ping" -> continuous_ping
    [] OTHER -> << >>

\* The calls main makes, and configure_ospf and switch_traffic_path with any
\* path arguments.
Paths == {"north", "south"}
PathValues == {"north", "south", "east"}
Calls ==
  { CallOf(Order[i]) : i \in 1..Len(Order) }
  \cup { Call("configure_ospf", p, "") : p \in PathValues }
  \cup { Call("switch_traffic_path", f, t) : f \in Paths, t \in Paths }

BodyTable == [c \in Calls |-> BodyOf(c)]
Body(c) == BodyTable[c]

InCall == status = "running" /\ call # NoCall /\ pc \in 1..Len(Body(call))
cur == Body(call)[pc]

\* mainPc of a function called on its own, outside main
Standalone == Len(Order) + 2

Event(k, cmd, msg, arg, secs) == [k |-> k, cmd |-> cmd, msg |-> msg, arg |-> arg, secs |-> secs]

Ifaces == UNION { { <<r, i>> : i \in DOMAIN ROUTERS[r].interfaces } : r \in DOMAIN ROUTERS }

Truthy(o) == o # None /\ o # ""

\* ---------------------------------------------------------- main's steps
Parse ==
  /\ status = "running" /\ mainPc = 0
  /\ args' = parse_args(argv)
  /\ argv' = << >>
  /\ mainPc' = 1
  /\ UNCHANGED << routers, hosts, argc, call, pc, output, trace, opsRun, opStart,
                  cost, cost0, containersUp, errorShown, faults, status, exitcode,
                  child, handler, lines, interrupted >>

\* "if args.<dest>:" is true: enter the block
Enter ==
  /\ status = "running" /\ call = NoCall /\ mainPc \in 1..Len(Order)
  /\ Order[mainPc] \in args
  /\ call' = CallOf(Order[mainPc])
  /\ pc' = 1
  /\ opsRun' = Append(opsRun, Order[mainPc])
  /\ opStart' = Len(trace)
  /\ cost0' = cost
  /\ UNCHANGED << routers, hosts, argv, argc, args, mainPc, output, trace, cost,
                  containersUp, errorShown, faults, status, exitcode, child, handler,
                  lines, interrupted >>

\* "if args.<dest>:" is false
Skip ==
  /\ status = "running" /\ call = NoCall /\ mainPc \in 1..Len(Order)
  /\ Order[mainPc] \notin args
  /\ mainPc' = mainPc + 1
  /\ UNCHANGED << routers, hosts, argv, argc, args, call, pc, output, trace, opsRun,
                  opStart, cost, cost0, containersUp, errorShown, faults, status,
                  exitcode, child, handler, lines, interrupted >>

\* the block's last statement has run
Return ==
  /\ status = "running" /\ call # NoCall /\ mainPc \in 1..Len(Order)
  /\ pc > Len(Body(call))
  /\ call' = NoCall
  /\ mainPc' = mainPc + 1
  /\ UNCHANGED << routers, hosts, argv, argc, args, pc, output, trace, opsRun, opStart,
                  cost, cost0, containersUp, errorShown, faults, status, exitcode,
                  child, handler, lines, interrupted >>

\* "if len(sys.argv) == 1: parser.print_help()", then main returns
HelpCheck ==
  /\ status = "running" /\ mainPc = Len(Order) + 1
  /\ trace' = IF argc = 1
                THEN Append(trace, Event("print", NoCmd, "usage", "", 0))
                ELSE trace
  /\ status' = "exited"
  /\ exitcode' = 0
  /\ UNCHANGED << routers, hosts, argv, argc, args, mainPc, call, pc, output, opsRun,
                  opStart, cost, cost0, containersUp, errorShown, faults, child,
                  handler, lines, interrupted >>

\* a function called on its own returns
FunctionReturn ==
  /\ status = "running" /\ call # NoCall /\ mainPc = Standalone
  /\ pc > Len(Body(call))
  /\ status' = "exited"
  /\ exitcode' = 0
  /\ UNCHANGED << routers, hosts, argv, argc, args, mainPc, call, pc, output, trace,
                  opsRun, opStart, cost, cost0, containersUp, errorShown, faults,
                  child, handler, lines, interrupted >>

\* ------------------------------------------------------ statement steps
DoEcho ==
  /\ InCall /\ cur.k = "print"
  /\ trace' = Append(trace, Event("print", NoCmd, cur.msg, cur.arg, 0))
  /\ pc' = pc + 1
  /\ UNCHANGED << routers, hosts, argv, argc, args, mainPc, call, output, opsRun,
                  opStart, cost, cost0, containersUp, errorShown, faults, status,
                  exitcode, child, handler, lines, interrupted >>

DoEchoIf ==
  /\ InCall /\ cur.k = "print_if"
  /\ trace' = Append(trace, Event("print", NoCmd,
                                  IF Truthy(output) THEN cur.msg ELSE cur.alt, cur.arg, 0))
  /\ pc' = pc + 1
  /\ UNCHANGED << routers, hosts, argv, argc, args, mainPc, call, output, opsRun,
                  opStart, cost, cost0, containersUp, errorShown, faults, status,
                  exitcode, child, handler, lines, interrupted >>

DoSleep ==
  /\ InCall /\ cur.k = "sleep"
  /\ trace' = Append(trace, Event("sleep", NoCmd, "", "", cur.secs))
  /\ pc' = pc + 1
  /\ UNCHANGED << routers, hosts, argv, argc, args, mainPc, call, output, opsRun,
                  opStart, cost, cost0, containersUp, errorShown, faults, status,
                  exitcode, child, handler, lines, interrupted >>

\* ---------------------------------------------------------- run_command
full_cmd(cmd, container) ==
  IF container # None THEN [cmd EXCEPT !.target = container] ELSE cmd

\* What a command that succeeds does to the docker project.
CostAfter(c, full) ==
  IF full.prog = "vtysh ip ospf cost"
    THEN [c EXCEPT ![<<full.target, full.iface>>] = full.weight]
    ELSE c

UpAfter(up, full) ==
  IF full.prog = "docker compose up -d" THEN TRUE
  ELSE IF full.prog = "docker compose down" THEN FALSE
  ELSE up

\* subprocess.run returns with exit status 0: return result.stdout.strip()
RunCommandOk ==
  /\ InCall /\ cur.k = "run"
  /\ LET full == full_cmd(cur.cmd, cur.container) IN
       /\ trace' = Append(trace, Event("run", full, "", "", 0))
       /\ cost' = CostAfter(cost, full)
       /\ containersUp' = UpAfter(containersUp, full)
  /\ \E stdout \in {"text", ""} :
       /\ stdout = "" /\ cur.keep => faults < MaxFaults
       /\ output' = IF cur.keep THEN stdout ELSE output
       /\ faults' = IF stdout = "" /\ cur.keep THEN faults + 1 ELSE faults
  /\ pc' = pc + 1
  /\ UNCHANGED << routers, hosts, argv, argc, args, mainPc, call, opsRun, opStart,
                  cost0, errorShown, status, exitcode, child, handler, lines,
                  interrupted >>

\* non-zero exit status: CalledProcessError is caught, printed, None returned
RunCommandCalledProcessError ==
  /\ InCall /\ cur.k = "run"
  /\ trace' = Append(trace, Event("run", full_cmd(cur.cmd, cur.container), "", "", 0))
  /\ faults < MaxFaults
  /\ faults' = faults + 1
  /\ errorShown' = TRUE
  /\ output' = IF cur.keep THEN None ELSE output
  /\ pc' = pc + 1
  /\ UNCHANGED << routers, hosts, argv, argc, args, mainPc, call, opsRun, opStart,
                  cost, cost0, containersUp, status, exitcode, child, handler,
                  lines, interrupted >>

\* the program cannot be launched: subprocess.run raises OSError
\* (FileNotFoundError, PermissionError), which no except clause names; the
\* exception leaves main and the interpreter exits with status 1
RunCommandOSError ==
  /\ InCall /\ cur.k = "run"
  /\ faults < MaxFaults
  /\ faults' = faults + 1
  /\ trace' = Append(trace, Event("run", full_cmd(cur.cmd, cur.container), "", "", 0))
  /\ status' = "exited"
  /\ exitcode' = 1
  /\ UNCHANGED << routers, hosts, argv, argc, args, mainPc, call, pc, output, opsRun,
                  opStart, cost, cost0, containersUp, errorShown, child, handler, lines,
                  interrupted >>

run_command == RunCommandOk \/ RunCommandCalledProcessError \/ RunCommandOSError


\* ------------------------------------------------------ continuous_ping
\* subprocess.Popen starts the ping
DoPopen ==
  /\ InCall /\ cur.k = "popen"
  /\ trace' = Append(trace, Event("run", cur.cmd, "", "", 0))
  /\ child' = "running"
  /\ pc' = pc + 1
  /\ UNCHANGED << routers, hosts, argv, argc, args, mainPc, call, output, opsRun,
                  opStart, cost, cost0, containersUp, errorShown, faults, status,
                  exitcode, handler, lines, interrupted >>

\* subprocess.Popen raises OSError: docker cannot be launched
PopenOSError ==
  /\ InCall /\ cur.k = "popen"
  /\ faults < MaxFaults
  /\ faults' = faults + 1
  /\ trace' = Append(trace, Event("run", cur.cmd, "", "", 0))
  /\ status' = "exited"
  /\ exitcode' = 1
  /\ UNCHANGED << routers, hosts, argv, argc, args, mainPc, call, pc, output, opsRun,
                  opStart, cost, cost0, containersUp, errorShown, child, handler, lines,
                  interrupted >>

\* signal.signal(signal.SIGINT, signal_handler)
InstallHandler ==
  /\ InCall /\ cur.k = "signal"
  /\ handler' = "custom"
  /\ pc' = pc + 1
  /\ UNCHANGED << routers, hosts, argv, argc, args, mainPc, call, output, trace,
                  opsRun, opStart, cost, cost0, containersUp, errorShown, faults,
                  status, exitcode, child, lines, interrupted >>

\* one iteration of "for line in ping_process.stdout: print(line.strip())"
ReadLine ==
  /\ InCall /\ cur.k = "read"
  /\ child = "running"
  /\ lines < MaxLines
  /\ lines' = lines + 1
  /\ UNCHANGED << routers, hosts, argv, argc, args, mainPc, call, pc, output, trace,
                  opsRun, opStart, cost, cost0, containersUp, errorShown, faults,
                  status, exitcode, child, handler, interrupted >>

\* the ping's stdout is closed: the for loop ends
ReadEof ==
  /\ InCall /\ cur.k = "read"
  /\ child # "running"
  /\ pc' = pc + 1
  /\ UNCHANGED << routers, hosts, argv, argc, args, mainPc, call, output, trace,
                  opsRun, opStart, cost, cost0, containersUp, errorShown, faults,
                  status, exitcode, child, handler, lines, interrupted >>

\* environment: the ping ends by itself
ChildExit ==
  /\ status = "running"
  /\ child = "running"
  /\ child' = "exited"
  /\ UNCHANGED << routers, hosts, argv, argc, args, mainPc, call, pc, output, trace,
                  opsRun, opStart, cost, cost0, containersUp, errorShown, faults,
                  status, exitcode, handler, lines, interrupted >>

\* ping_process.terminate(): signals the child unless it has already ended
terminate(ch) == IF ch = "running" THEN "terminated" ELSE ch

\* SIGINT is delivered to the script from the moment continuous_ping is
\* entered, at most once (every delivery ends the script or the loop).
PingEntered == \E i \in 1..Len(opsRun) : opsRun[i] = "continuous_ping"

\* SIGINT while Python's default handler is installed: KeyboardInterrupt is
\* raised in main.  Only the try around the read loop catches it; anywhere
\* else it leaves main and the interpreter exits.
SigintDefault ==
  /\ status = "running" /\ interrupted = "no" /\ PingEntered
  /\ handler = "default"
  /\ interrupted' = child
  /\ IF InCall /\ cur.k = "read"
       THEN /\ trace' = Append(trace, Event("print", NoCmd, "Stopping ping...", "", 0))
            /\ child' = terminate(child)
            /\ pc' = pc + 1
            /\ UNCHANGED << status, exitcode >>
       ELSE /\ status' = "exited"
            /\ exitcode' = 130
            /\ UNCHANGED << trace, child, pc >>
  /\ UNCHANGED << routers, hosts, argv, argc, args, mainPc, call, output, opsRun,
                  opStart, cost, cost0, containersUp, errorShown, faults, handler,
                  lines >>

\* SIGINT once signal_handler is installed: print, terminate, sys.exit(0)
SigintHandler ==
  /\ status = "running" /\ interrupted = "no" /\ PingEntered
  /\ handler = "custom"
  /\ interrupted' = child
  /\ trace' = Append(trace, Event("print", NoCmd, "Stopping ping...", "", 0))
  /\ child' = terminate(child)
  /\ status' = "exited"
  /\ exitcode' = 0
  /\ UNCHANGED << routers, hosts, argv, argc, args, mainPc, call, pc, output, opsRun,
                  opStart, cost, cost0, containersUp, errorShown, faults, handler,
                  lines >>

\* -------------------------------------------------------- specifications
ArgLists(n) == UNION { [1..k -> Flags] : k \in 0..n }

\* The state in which main starts.
Boot ==
  /\ routers = ROUTERS
  /\ hosts = HOSTS
  /\ argc = Len(argv) + 1
  /\ args = {}
  /\ mainPc = 0
  /\ call = NoCall
  /\ pc = 0
  /\ output = None
  /\ trace = << >>
  /\ opsRun = << >>
  /\ opStart = 0
  /\ cost = [i \in Ifaces |-> UnsetCost]
  /\ cost0 = cost
  /\ containersUp = FALSE
  /\ errorShown = FALSE
  /\ faults = 0
  /\ status = "running"
  /\ exitcode = 0
  /\ child = "none"
  /\ handler = "default"
  /\ lines = 0
  /\ interrupted = "no"

\* One run of the script: any flags, any outcome of every command, SIGINT.
Init == argv \in ArgLists(MaxArgs) /\ Boot

Next ==
  \/ Parse
  \/ Enter
  \/ Skip
  \/ Return
  \/ HelpCheck
  \/ DoEcho
  \/ DoEchoIf
  \/ DoSleep
  \/ run_command
  \/ DoPopen
  \/ PopenOSError
  \/ InstallHandler
  \/ ReadLine
  \/ ReadEof
  \/ ChildExit
  \/ SigintDefault
  \/ SigintHandler

Spec == Init /\ [][Next]_vars

\* One run of the script in which every command exits with status 0 and no
\* signal arrives.
InitOk == argv \in ArgLists(MaxArgsOk) /\ Boot

NextOk ==
  \/ Parse
  \/ Enter
  \/ Skip
  \/ Return
  \/ HelpCheck
  \/ DoEcho
  \/ DoEchoIf
  \/ DoSleep
  \/ RunCommandOk
  \/ DoPopen
  \/ InstallHandler
  \/ ReadLine
  \/ ReadEof
  \/ ChildExit

SpecOk == InitOk /\ [][NextOk]_vars

\* A cost-setting function called on its own, from any prior costs of the
\* eight path interfaces, with every command succeeding.
CostValues == {DEFAULT_WEIGHT, HIGH_WEIGHT, UnsetCost}

PathIfaces ==
  UNION { { <<r, ROUTERS[r].north_interface>>, <<r, ROUTERS[r].south_interface>> } :
          r \in DOMAIN ROUTERS }

CostCalls ==
  { Call("configure_ospf", p, "") : p \in PathValues }
  \cup { Call("switch_traffic_path", f, t) : f \in Paths, t \in Paths }

InitCost ==
  /\ routers = ROUTERS
  /\ hosts = HOSTS
  /\ argv = << >>
  /\ argc = 1
  /\ args = {}
  /\ mainPc = Standalone
  /\ call \in CostCalls
  /\ pc = 1
  /\ output = None
  /\ trace = << >>
  /\ opsRun = << >>
  /\ opStart = 0
  /\ cost \in { c \in [Ifaces -> CostValues] :
                  \A i \in Ifaces \ PathIfaces : c[i] = UnsetCost }
  /\ cost0 = cost
  /\ containersUp = TRUE
  /\ errorShown = FALSE
  /\ faults = 0
  /\ status = "running"
  /\ exitcode = 0
  /\ child = "none"
  /\ handler = "default"
  /\ lines = 0
  /\ interrupted = "no"

NextCost ==
  \/ DoEcho
  \/ DoSleep
  \/ RunCommandOk
  \/ FunctionReturn

SpecCost == InitCost /\ [][NextCost]_vars

\* ================================================================ claims
NorthPath == { <<"r1", "eth1">>, <<"r2", "eth0">>, <<"r2", "eth1">>, <<"r3", "eth0">> }
SouthPath == { <<"r1", "eth2">>, <<"r4", "eth0">>, <<"r4", "eth1">>, <<"r3", "eth1">> }
PathOf(p) == IF p = "north" THEN NorthPath ELSE SouthPath
AllAt(path, w) == \A i \in path : cost[i] = w
IsSwitch == call.fn = "switch_traffic_path" /\ call.a \in Paths /\ call.b \in Paths
                                            /\ call.a # call.b
UseFlag(p) == IF p = "north" THEN "use_north" ELSE "use_south"

\* the switch in progress was entered right after configure_ospf(from_path)
\* ran in the same run, and every command so far took effect
SwitchAfterConfigure ==
  /\ IsSwitch
  /\ Len(opsRun) >= 2
  /\ opsRun[Len(opsRun) - 1] = UseFlag(call.a)
  /\ faults = 0
  /\ ~(status = "exited" /\ exitcode = 1)

\* C2: from the costs configure_ospf(from_path) leaves and with every cost
\* command taking effect, in every state of switch_traffic_path(from_path,
\* to_path) at least one of the two paths has all four interface costs
\* equal to DEFAULT_WEIGHT.
C2_AlwaysACheapPath ==
  SwitchAfterConfigure => AllAt(NorthPath, DEFAULT_WEIGHT) \/ AllAt(SouthPath, DEFAULT_WEIGHT)

\* C2 witness: north -> south, midway through step 2 (r1's north interface
\* already raised, r3's not yet)
C2_Witness ==
  /\ SwitchAfterConfigure
  /\ call.a = "north"
  /\ cost[<<"r1", "eth1">>] = HIGH_WEIGHT
  /\ cost[<<"r3", "eth0">>] = DEFAULT_WEIGHT

\* cost commands the function in progress has issued so far, as trace indices
OpIdx == (opStart + 1)..Len(trace)
IsCost(e, ifs, w) ==
  /\ e.k = "run"
  /\ e.cmd.prog = "vtysh ip ospf cost"
  /\ <<e.cmd.target, e.cmd.iface>> \in ifs
  /\ e.cmd.weight = w

\* C6: whatever the outcome of each command, in switch_traffic_path a
\* from_path interface is set to HIGH_WEIGHT only after all four to_path
\* interfaces have been set to DEFAULT_WEIGHT and the convergence sleep
\* that follows them has elapsed.
C6_MakeBeforeBreak ==
  IsSwitch =>
    \A i \in OpIdx :
      IsCost(trace[i], PathOf(call.a), HIGH_WEIGHT) =>
        \E s \in OpIdx :
          /\ s < i
          /\ trace[s].k = "sleep"
          /\ \A x \in PathOf(call.b) :
               \E j \in OpIdx : j < s /\ IsCost(trace[j], {x}, DEFAULT_WEIGHT)

\* C6 witness: switch north -> south in which the first lowering (r1 eth2)
\* exited non-zero and step 2 has nevertheless raised r1's north interface
C6_Witness ==
  /\ IsSwitch
  /\ call.a = "north"
  /\ errorShown
  /\ cost[<<"r1", "eth2">>] # DEFAULT_WEIGHT
  /\ cost[<<"r1", "eth1">>] = HIGH_WEIGHT

\* ------------------------------------------------------------ SpecCost
Returned(fn) == status = "exited" /\ exitcode = 0 /\ call.fn = fn

\* C3: after configure_ospf(path), from any prior costs: both ends of each
\* link of the chosen path cost DEFAULT_WEIGHT, both ends of each link of
\* the other path cost HIGH_WEIGHT, so the chosen path totals 20 and the
\* other 200; a path other than "north" is treated as south.
C3_ConfigureOspfCosts ==
  Returned("configure_ospf") =>
    LET north == call.a = "north"
        chosen == IF north THEN DEFAULT_WEIGHT ELSE HIGH_WEIGHT
        other == IF north THEN HIGH_WEIGHT ELSE DEFAULT_WEIGHT
        r1_r2 == << cost[<<"r1", "eth1">>], cost[<<"r2", "eth0">>] >>
        r2_r3 == << cost[<<"r2", "eth1">>], cost[<<"r3", "eth0">>] >>
        r1_r4 == << cost[<<"r1", "eth2">>], cost[<<"r4", "eth0">>] >>
        r4_r3 == << cost[<<"r4", "eth1">>], cost[<<"r3", "eth1">>] >>
        northTotal == r1_r2[1] + r2_r3[1]
        southTotal == r1_r4[1] + r4_r3[1]
    IN /\ r1_r2 = << chosen, chosen >>
       /\ r2_r3 = << chosen, chosen >>
       /\ r1_r4 = << other, other >>
       /\ r4_r3 = << other, other >>
       /\ IF north THEN northTotal = 20 /\ southTotal = 200
                   ELSE southTotal = 20 /\ northTotal = 200

\* C3 witness: configure_ospf("east") returned, having turned r1 eth2 from
\* HIGH_WEIGHT to DEFAULT_WEIGHT
C3_Witness ==
  /\ Returned("configure_ospf")
  /\ call.a = "east"
  /\ cost0[<<"r1", "eth2">>] = HIGH_WEIGHT
  /\ cost[<<"r1", "eth2">>] = DEFAULT_WEIGHT

\* the costs after every command of a function body has taken effect
RECURSIVE CostAfterBody(_, _)
CostAfterBody(c, b) ==
  IF b = << >> THEN c
  ELSE CostAfterBody(IF Head(b).k = "run"
                       THEN CostAfter(c, full_cmd(Head(b).cmd, Head(b).container))
                       ELSE c,
                     Tail(b))

\* C7: from any prior costs, the costs after switch_traffic_path(X, Y)
\* equal the costs after configure_ospf(Y).
C7_SwitchEndsLikeConfigure ==
  Returned("switch_traffic_path") /\ IsSwitch =>
    cost = CostAfterBody(cost0, configure_ospf(call.b))

\* C7 witness: switch_traffic_path(north, south) returned from costs in
\* which r1 eth1 had never been set and r4 eth1 was high
C7_Witness ==
  /\ Returned("switch_traffic_path") /\ IsSwitch
  /\ call.b = "south"
  /\ cost0[<<"r1", "eth1">>] = UnsetCost
  /\ cost0[<<"r4", "eth1">>] = HIGH_WEIGHT
  /\ cost[<<"r4", "eth1">>] = DEFAULT_WEIGHT

\* ---------------------------------------------------------------- Spec
IsProg(e, progs) == e.k = "run" /\ e.cmd.prog \in progs
IsVtyshConfig(e) == IsProg(e, {"vtysh router ospf", "vtysh ip ospf cost"})
IsEcho(e, msgs) == e.k = "print" /\ e.msg \in msgs
InstallDone(e, r) ==
  /\ IsEcho(e, {"OSPF daemon running on", "Warning: OSPF daemon may not be running on"})
  /\ e.arg = r
\* the cost configure_ospf("north") gives an interface
NorthCost(i) == IF i \in NorthPath THEN DEFAULT_WEIGHT ELSE HIGH_WEIGHT
RouterIfaces(r) == { i \in NorthPath \cup SouthPath : i[1] = r }

\* C4: in --setup, docker compose up precedes every command inside a
\* container; install_frr has finished on r1..r4 before the first vtysh
\* configuration command; every router has its basic OSPF configuration
\* before its interface costs and all four have the north-path costs before
\* a host route is added; both host routes are added, with nothing but
\* prints after them, before "Network setup complete".
C4_SetupOrder ==
  call.fn = "setup" =>
    \A i \in OpIdx :
      LET e == trace[i]
          Earlier == (opStart + 1)..(i - 1)
      IN /\ (e.k = "run" /\ e.cmd.target # "host") =>
              \E j \in Earlier : IsProg(trace[j], {"docker compose up -d"})
         /\ IsVtyshConfig(e) =>
              \A r \in {"r1", "r2", "r3", "r4"} : \E j \in Earlier : InstallDone(trace[j], r)
         /\ IsProg(e, {"vtysh ip ospf cost"}) =>
              \E j \in Earlier : /\ IsProg(trace[j], {"vtysh router ospf"})
                                 /\ trace[j].cmd.target = e.cmd.target
         /\ IsProg(e, {"ip route add"}) =>
              /\ \A r \in {"r1", "r2", "r3", "r4"} :
                   /\ \E j \in Earlier : /\ IsProg(trace[j], {"vtysh router ospf"})
                                         /\ trace[j].cmd.target = r
                   /\ Cardinality(RouterIfaces(r)) = 2
                   /\ \A x \in RouterIfaces(r) :
                        \E j \in Earlier : IsCost(trace[j], {x}, NorthCost(x))
              /\ \A j \in OpIdx : j > i /\ trace[j].k = "run" =>
                                    IsProg(trace[j], {"ip route add"})
         /\ IsEcho(e, {"Network setup complete"}) =>
              \A h \in {"hosta", "hostb"} :
                \E j \in Earlier : /\ IsProg(trace[j], {"ip route add"})
                                   /\ trace[j].cmd.target = h

\* C4 witness: --setup has printed "Network setup complete"
C4_Witness ==
  /\ call.fn = "setup"
  /\ Len(trace) > opStart
  /\ IsEcho(trace[Len(trace)], {"Network setup complete"})

\* address arithmetic on <<a, b, c, d, len>>
Pow2(n) == 2 ^ n
AddrInt(ip) == ((ip[1] * 256 + ip[2]) * 256 + ip[3]) * 256 + ip[4]
Subnet(ip) ==
  LET net == AddrInt(ip) - (AddrInt(ip) % Pow2(32 - ip[5]))
  IN << net \div 16777216, (net \div 65536) % 256, (net \div 256) % 256, net % 256, ip[5] >>
Addr(ip) == << ip[1], ip[2], ip[3], ip[4] >>
Range(q) == { q[i] : i \in 1..Len(q) }
NetworkOf(r, which) == routers[r].interfaces[routers[r][which]].network

\* C9: the two interfaces of each link whose costs are set as a pair are on
\* the same network; each router's networks are exactly the subnets of its
\* interfaces; each host's gateway is a router interface address on the
\* host's subnet; and ROUTERS and HOSTS keep their initial contents.
C9_TablesMatchTopology ==
  /\ NetworkOf("r1", "north_interface") = NetworkOf("r2", "north_interface")
  /\ NetworkOf("r2", "south_interface") = NetworkOf("r3", "north_interface")
  /\ NetworkOf("r3", "south_interface") = NetworkOf("r4", "south_interface")
  /\ NetworkOf("r1", "south_interface") = NetworkOf("r4", "north_interface")
  /\ \A r \in DOMAIN routers :
       /\ Range(routers[r].networks)
            = { Subnet(routers[r].interfaces[i].ip) : i \in DOMAIN routers[r].interfaces }
       /\ Len(routers[r].networks) = Cardinality(Range(routers[r].networks))
  /\ \A h \in DOMAIN hosts :
       \E r \in DOMAIN routers : \E i \in DOMAIN routers[r].interfaces :
         /\ Addr(routers[r].interfaces[i].ip) = hosts[h].gateway
         /\ Subnet(routers[r].interfaces[i].ip) = Subnet(hosts[h].ip)
  /\ routers = ROUTERS
  /\ hosts = HOSTS

\* C9 witness: a run of --setup, which reads both tables, has ended
C9_Witness ==
  /\ status = "exited" /\ exitcode = 0
  /\ "setup" \in args
  /\ \E i \in 1..Len(trace) : IsEcho(trace[i], {"Network setup complete"})

ClaimedOrder == << "start", "stop", "setup", "use_north", "use_south",
                   "switch_to_north", "switch_to_south", "show_routes",
                   "show_neighbors", "traceroute", "ping", "continuous_ping" >>
Selected == LET Given(d) == d \in args IN SelectSeq(ClaimedOrder, Given)
IsPrefix(p, q) == Len(p) <= Len(q) /\ \A i \in 1..Len(p) : p[i] = q[i]
EndedNormally == status = "exited" /\ exitcode = 0 /\ interrupted = "no"
ProgIndex(prog) == { i \in 1..Len(trace) : IsProg(trace[i], {prog}) }

\* C10: the blocks entered are, at any moment, a prefix of the selected
\* flags taken in the fixed order start, stop, setup, use-north, use-south,
\* switch-to-north, switch-to-south, show-routes, show-neighbors,
\* traceroute, ping, continuous-ping, and all of them when the script ends
\* normally.  With every command taking effect: --use-north --use-south and
\* --switch-to-north --switch-to-south end with the south path preferred,
\* --start --stop ends with the containers down, --stop --setup brings them
\* down and then up.
C10_FixedOrder ==
  /\ mainPc >= 1 => IsPrefix(opsRun, Selected)
  /\ EndedNormally => opsRun = Selected
  /\ (EndedNormally /\ faults = 0) =>
       /\ args \in { {"use_north", "use_south"}, {"switch_to_north", "switch_to_south"} } =>
            AllAt(SouthPath, DEFAULT_WEIGHT) /\ AllAt(NorthPath, HIGH_WEIGHT)
       /\ args = {"start", "stop"} => ~containersUp
       /\ args = {"stop", "setup"} =>
            /\ containersUp
            /\ \A d \in ProgIndex("docker compose down") :
                 \A u \in ProgIndex("docker compose up -d") : d < u

\* C10 witness: --use-north --use-south ended with the south path preferred
C10_Witness ==
  /\ EndedNormally /\ faults = 0
  /\ args = {"use_north", "use_south"}
  /\ opsRun = << "use_north", "use_south" >>
  /\ AllAt(SouthPath, DEFAULT_WEIGHT)

\* the commands handed to subprocess, in order
Commands(tr) ==
  LET IsRun(e) == e.k = "run"
      runs == SelectSeq(tr, IsRun)
  IN [i \in 1..Len(runs) |-> runs[i].cmd]
BodyCommands(b) ==
  LET IsRun(st) == st.k \in {"run", "popen"}
      runs == SelectSeq(b, IsRun)
  IN [i \in 1..Len(runs) |-> full_cmd(runs[i].cmd, runs[i].container)]
\* the commands of the run in which every command succeeds
AllSuccessCommands ==
  Flatten([i \in 1..Len(Selected) |-> BodyCommands(Body(CallOf(Selected[i])))])
Count(c, q) == Cardinality({ i \in 1..Len(q) : q[i] = c })

\* C1: whatever commands fail, by non-zero exit or by failing to launch, the
\* script issues exactly the commands of the all-success run, in the same
\* order, and every selected operation runs to its end.
C1_FailuresSwallowed ==
  (status = "exited" /\ interrupted = "no") =>
    /\ Commands(trace) = AllSuccessCommands
    /\ opsRun = Selected

\* C1 restricted to non-zero exit statuses (what the script does swallow)
C1_NonZeroSwallowed ==
  (status = "exited" /\ interrupted = "no" /\ exitcode # 1) =>
    /\ Commands(trace) = AllSuccessCommands
    /\ opsRun = Selected

\* C5: whatever commands fail, every command of the selected operations is
\* issued exactly as many times as in the all-success run and the script's
\* exit status is that of the all-success run, 0.
C5_NoRetryNoExitCode ==
  (status = "exited" /\ interrupted = "no") =>
    /\ exitcode = 0
    /\ \A c \in Range(AllSuccessCommands) \cup Range(Commands(trace)) :
         Count(c, Commands(trace)) = Count(c, AllSuccessCommands)

\* C8: a SIGINT that arrives while the background ping is running has the
\* ping terminated by the time the script has exited.
C8_PingTerminatedOnInterrupt ==
  (status = "exited" /\ interrupted = "running") => child = "terminated"

\* C8 restricted to a SIGINT arriving once the handler is installed
C8_TerminatedOnceHandlerInstalled ==
  (status = "exited" /\ interrupted = "running" /\ handler = "custom") => child = "terminated"

====
